---- MODULE Spec2Model ----
(***************************************************************************)
(* Wishlist API (routes/wishlist.js as concatenated in src/server.js).     *)
(*                                                                         *)
(* The model covers the request gate, the three wishlist handlers and the  *)
(* helpers that talk to the store: the customer query, the product lookup, *)
(* the GraphQL metafieldsSet mutation and the REST fallback.  Every await  *)
(* of a handler is a step of its own, so that two requests interleave      *)
(* exactly where the event loop lets them.  The upstream store is the      *)
(* environment: it answers each call with one of the outcomes the code     *)
(* distinguishes.                                                          *)
(*                                                                         *)
(* JavaScript values are records [t, v]: t is the type tag and v the       *)
(* sequence of text tokens of the value, so that "1" and 1 print the same  *)
(* inside a template literal but differ under ===.  Strings that the code  *)
(* takes apart (ids, URLs) are token sequences.                            *)
(***************************************************************************)
EXTENDS Integers, Sequences, FiniteSets, TLC

\* ----------------------------------------------------------------- bounds
MaxRequests == 2  \* requests accepted during one run

\* requests that may be in flight together
Slots == {1, 2}

\* -------------------------------------------------------- JavaScript values
Str(toks) == [t |-> "string", v |-> toks]
Num(toks) == [t |-> "number", v |-> toks]
JsNull == [t |-> "null", v |-> <<>>]
Undefined == [t |-> "undefined", v |-> <<>>]

\* !x of the handlers' validation: undefined and the empty string are falsy
Falsy(x) == x.t = "undefined" \/ (x.t = "string" /\ x.v = <<>>)

\* `${x}` : the text of the value, whatever its type
Template(x) == x.v

\* a === b : same type and same value
StrictEq(a, b) == a.t = b.t /\ a.v = b.v

\* s.startsWith(prefix) on token sequences
StartsWith(s, prefix) ==
    /\ Len(s) >= Len(prefix)
    /\ SubSeq(s, 1, Len(prefix)) = prefix

RECURSIVE FirstAt(_, _, _)
\* first index >= i at which pat occurs in s, 0 when there is none
FirstAt(s, pat, i) ==
    IF i + Len(pat) - 1 > Len(s) THEN 0
    ELSE IF SubSeq(s, i, i + Len(pat) - 1) = pat THEN i
    ELSE FirstAt(s, pat, i + 1)

\* s.includes(pat)
Includes(s, pat) == FirstAt(s, pat, 1) # 0

\* s.replace(pat, '') : the first occurrence only
ReplaceFirst(s, pat) ==
    LET i == FirstAt(s, pat, 1)
    IN IF i = 0 THEN s
       ELSE SubSeq(s, 1, i - 1) \o SubSeq(s, i + Len(pat), Len(s))

\* ----------------------------------------------------------------- the ids
GidScheme == "gid://"
CustomerPath == "shopify/Customer/"
ProductPath == "shopify/Product/"

\* 'gid://shopify/Customer/' and 'gid://shopify/Product/' as the code writes them
CustomerGidPrefix == <<GidScheme, CustomerPath>>
ProductGidPrefix == <<GidScheme, ProductPath>>

\* customers of the store, and one id the store does not know
KnownCustomers == {"1"}
CustomerNumbers == {"1", "2"}

\* the customerId a request may carry: bare, qualified, or missing
CustomerIdInputs ==
    {Str(<<n>>) : n \in CustomerNumbers}
        \cup {Str(CustomerGidPrefix \o <<n>>) : n \in CustomerNumbers}
        \cup {Undefined}

\* products of the catalogue
ProductNumbers == {"1", "2"}

\* the productId a JSON body may carry: a string, a number, or nothing
ProductIdInputs ==
    {Str(<<n>>) : n \in ProductNumbers} \cup {Num(<<"2">>), Undefined}

\* customerId.startsWith('gid://') ? customerId : `gid://shopify/Customer/${customerId}`
QualifiedCustomerId(customerId) ==
    IF StartsWith(customerId.v, <<GidScheme>>)
    THEN customerId.v
    ELSE CustomerGidPrefix \o Template(customerId)

\* the id left as it came
CleanCustomerIdUnstripped(customerId) == customerId.v

\* customerId.replace('gid://shopify/Customer/', '')
CleanCustomerId(customerId) == ReplaceFirst(customerId.v, CustomerGidPrefix)

\* `gid://shopify/Product/${id}`
QualifiedProductId(id) == ProductGidPrefix \o Template(id)

\* ------------------------------------------------------------ wishlist entries
AddedFrom == Str(<<"shopify-store">>)

Entry(id, handle, title, addedAt) ==
    [id |-> id, handle |-> handle, title |-> title,
     addedAt |-> addedAt, addedFrom |-> AddedFrom]

NoEntry ==
    [id |-> Undefined, handle |-> Undefined, title |-> Undefined,
     addedAt |-> Undefined, addedFrom |-> Undefined]

\* new Date().toISOString() at tick k of the clock
IsoTime(k) == Str(<<"T", ToString(k)>>)

\* ------------------------------------------------------------------- JSON
Quote == "\""

\* JSON.stringify of one scalar
ValueText(x) ==
    CASE x.t = "string" -> <<Quote>> \o x.v \o <<Quote>>
      [] x.t = "number" -> x.v
      [] OTHER -> <<"null">>

\* JSON.parse of one scalar
TextValue(text) ==
    IF text = <<"null">> THEN JsNull
    ELSE IF Head(text) = Quote THEN Str(SubSeq(text, 2, Len(text) - 1))
    ELSE Num(text)

EntryText(e) ==
    [id |-> ValueText(e.id), handle |-> ValueText(e.handle),
     title |-> ValueText(e.title), addedAt |-> ValueText(e.addedAt),
     addedFrom |-> ValueText(e.addedFrom)]

TextEntry(x) ==
    [id |-> TextValue(x.id), handle |-> TextValue(x.handle),
     title |-> TextValue(x.title), addedAt |-> TextValue(x.addedAt),
     addedFrom |-> TextValue(x.addedFrom)]

\* JSON.stringify(wishlistProducts)
JsonStringify(list) ==
    [k |-> "array", items |-> [i \in 1..Len(list) |-> EntryText(list[i])]]

\* a metafield value that is not JSON
Garbage == [k |-> "garbage", items |-> <<>>]
NoText == [k |-> "none", items |-> <<>>]

\* JSON.parse(value): ok is FALSE where the code's JSON.parse throws
JsonParse(text) ==
    IF text.k = "array"
    THEN [ok |-> TRUE,
          value |-> [i \in 1..Len(text.items) |-> TextEntry(text.items[i])]]
    ELSE [ok |-> FALSE, value |-> <<>>]

\* ------------------------------------------------------------ the upstream store
Namespace == "custom"
WishlistKey == "wishlist_products"

\* metafields(first: 10, namespace: "custom")
FirstN == 10

\* the customer the GraphQL API resolves a global id to
GraphQLCustomer(gid) ==
    IF /\ StartsWith(gid, CustomerGidPrefix)
       /\ Len(gid) = Len(CustomerGidPrefix) + 1
       /\ gid[Len(gid)] \in CustomerNumbers
    THEN gid[Len(gid)]
    ELSE "invalid"

\* the customer the REST API resolves /customers/<id>/... to
RestCustomer(pathId) ==
    IF Len(pathId) = 1 /\ pathId[1] \in CustomerNumbers
    THEN pathId[1]
    ELSE "invalid"

\* the product the GraphQL API resolves a global id to
GraphQLProduct(gid) ==
    IF /\ StartsWith(gid, ProductGidPrefix)
       /\ Len(gid) = Len(ProductGidPrefix) + 1
       /\ gid[Len(gid)] \in ProductNumbers
    THEN gid[Len(gid)]
    ELSE "invalid"

\* the node the store returns for a product
ProductNode(n) ==
    [id |-> Str(ProductGidPrefix \o <<n>>),
     handle |-> Str(<<"handle-", n>>),
     title |-> Str(<<"Title ", n>>)]

Metafield(namespace, key, value) ==
    [namespace |-> namespace, key |-> key, value |-> value]

\* the customer's metafields in namespace "custom", in the store's order:
\* `others` metafields of other keys, then the wishlist metafield if it exists
CustomMetafields(rec) ==
    [i \in 1..rec.others |-> Metafield(Namespace, "other", NoText)]
        \o (IF rec.present
            THEN <<Metafield(Namespace, WishlistKey, rec.value)>>
            ELSE <<>>)

\* the first n elements of a sequence
First(s, n) == SubSeq(s, 1, IF Len(s) < n THEN Len(s) ELSE n)

\* Array.prototype.find, given the indices of the elements that satisfy the
\* callback: the first of them, 0 for undefined
Find(hits) ==
    IF hits = {} THEN 0
    ELSE CHOOSE i \in hits : \A j \in hits : i <= j

IsWishlistMetafield(mf) == mf.key = WishlistKey /\ mf.namespace = Namespace


\* ------------------------------------------------------------- the handlers' steps

\* validateStoreRequest: the gate's decision from NODE_ENV and the headers.
\* A header is a token sequence, <<>> when the request does not carry it.
DevelopmentUrl == <<"localhost">>
StoreUrl == <<"https://", "shop.example">>

\* the host check taken in every mode but production
IsValidOriginNonProduction(mode, host, originHeader, referer) ==
    LET origin == IF originHeader # <<>> THEN originHeader ELSE referer
    IN IF mode # "production"
       THEN host # <<>> /\ Includes(host, DevelopmentUrl)
       ELSE origin # <<>> /\ StartsWith(origin, StoreUrl)

IsValidOrigin(mode, host, originHeader, referer) ==
    LET origin == IF originHeader # <<>> THEN originHeader ELSE referer
    IN IF mode = "development"
       THEN host # <<>> /\ Includes(host, DevelopmentUrl)
       ELSE origin # <<>> /\ StartsWith(origin, StoreUrl)

\* currentWishlist.find(product => product.id === productId)
ExistingProduct(currentWishlist, productId) ==
    Find({i \in 1..Len(currentWishlist) : StrictEq(currentWishlist[i].id, productId)})

\* the filter with != for !==
RemoveProductLoose(currentWishlist, productId) ==
    SelectSeq(currentWishlist, LAMBDA product : Template(product.id) # Template(productId))

\* the filter with === for !==
RemoveProductInverted(currentWishlist, productId) ==
    SelectSeq(currentWishlist, LAMBDA product : StrictEq(product.id, productId))

\* currentWishlist.filter(product => product.id !== productId)
RemoveProduct(currentWishlist, productId) ==
    SelectSeq(currentWishlist, LAMBDA product : ~StrictEq(product.id, productId))

\* getProductDetails, the mapping of a node the query returned
ProductDetails(node) ==
    [id |-> Str(ReplaceFirst(node.id.v, ProductGidPrefix)),
     handle |-> node.handle,
     title |-> node.title]

\* the basic structure with the id turned into text and no title prefix
BasicProductDetailsText(id) ==
    [id |-> Str(Template(id)),
     handle |-> JsNull,
     title |-> Str(Template(id))]

\* getProductDetails, the basic structure returned from its catch block
BasicProductDetails(id) ==
    [id |-> id,
     handle |-> JsNull,
     title |-> Str(<<"Product ">> \o Template(id))]

\* { ...productDetails[0], addedAt: new Date().toISOString(), addedFrom: 'shopify-store' }
NewProduct(details, now) ==
    Entry(details.id, details.handle, details.title, IsoTime(now))

\* what the customer query can come back with: the request failed, the store
\* knows no such customer (customer: null), or the customer with the first
\* FirstN metafields of namespace "custom"
QueryFailed == [kind |-> "error", edges |-> <<>>]
CustomerNull == [kind |-> "customer not found", edges |-> <<>>]
CustomerWith(rec) ==
    [kind |-> "customer", edges |-> First(CustomMetafields(rec), FirstN)]

Returned(list) == [threw |-> FALSE, value |-> list]
Thrown == [threw |-> TRUE, value |-> <<>>]

\* getCustomerMetafield rethrowing 'Customer not found' like any other error
GetCustomerMetafieldRethrowing(answer) ==
    CASE answer.kind = "error" -> Thrown
      [] answer.kind = "customer not found" -> Thrown
      [] OTHER ->
           LET i == Find({k \in 1..Len(answer.edges) : IsWishlistMetafield(answer.edges[k])})
           IN IF i = 0 THEN Thrown
              ELSE LET parsed == JsonParse(answer.edges[i].value)
                   IN IF parsed.ok THEN Returned(parsed.value) ELSE Returned(<<>>)

\* getCustomerMetafield returning [] on every error
GetCustomerMetafieldSwallowing(answer) ==
    CASE answer.kind = "error" -> Returned(<<>>)
      [] answer.kind = "customer not found" -> Returned(<<>>)
      [] OTHER ->
           LET i == Find({k \in 1..Len(answer.edges) : IsWishlistMetafield(answer.edges[k])})
           IN IF i = 0 THEN Returned(<<>>)
              ELSE LET parsed == JsonParse(answer.edges[i].value)
                   IN IF parsed.ok THEN Returned(parsed.value) ELSE Returned(<<>>)

\* getCustomerMetafield letting the error of JSON.parse out
GetCustomerMetafieldParseThrows(answer) ==
    CASE answer.kind = "error" -> Thrown
      [] answer.kind = "customer not found" -> Returned(<<>>)
      [] OTHER ->
           LET i == Find({k \in 1..Len(answer.edges) : IsWishlistMetafield(answer.edges[k])})
           IN IF i = 0 THEN Returned(<<>>)
              ELSE LET parsed == JsonParse(answer.edges[i].value)
                   IN IF parsed.ok THEN Returned(parsed.value) ELSE Thrown

\* getCustomerMetafield, from the answer of the customer query to what the
\* function returns or throws
GetCustomerMetafield(answer) ==
    CASE answer.kind = "error" -> Thrown
      [] answer.kind = "customer not found" -> Returned(<<>>)
      [] OTHER ->
           LET i == Find({k \in 1..Len(answer.edges) : IsWishlistMetafield(answer.edges[k])})
           IN IF i = 0 THEN Returned(<<>>)
              ELSE LET parsed == JsonParse(answer.edges[i].value)
                   IN IF parsed.ok THEN Returned(parsed.value) ELSE Returned(<<>>)

\* the value holding the last product only
MutationValueLastOnly(wishlistProducts) ==
    IF wishlistProducts = <<>> THEN JsonStringify(<<>>)
    ELSE JsonStringify(<<wishlistProducts[Len(wishlistProducts)]>>)

\* value: JSON.stringify(wishlistProducts) of the metafieldsSet variables
MutationValue(wishlistProducts) == JsonStringify(wishlistProducts)

\* the body holding the last product only
RestBodyValueLastOnly(wishlistProducts) ==
    IF wishlistProducts = <<>> THEN JsonStringify(<<>>)
    ELSE JsonStringify(<<wishlistProducts[Len(wishlistProducts)]>>)

\* value: JSON.stringify(wishlistProducts) of the REST request body
RestBodyValue(wishlistProducts) == JsonStringify(wishlistProducts)

\* updateCustomerMetafieldREST, the metafield id found in the list the GET returned
\* (0 for undefined); the store's REST list is not cut to a namespace page
ExistingMetafieldId(rec) ==
    LET metafields == CustomMetafields(rec)
    IN Find({i \in 1..Len(metafields) :
                metafields[i].namespace = Namespace /\ metafields[i].key = WishlistKey})

\* the create whatever the GET found
RestMethodAlwaysPost(metafieldId) == "POST"

\* metafieldId ? 'PUT' : 'POST'
RestMethod(metafieldId) == IF metafieldId # 0 THEN "PUT" ELSE "POST"

\* ---------------------------------------------------------------------- state
VARIABLES
    nodeEnv,   \* process.env.NODE_ENV
    customers, \* the store: per known customer, the wishlist metafield
    req,       \* per slot, the request being served and its locals
    started,   \* requests accepted so far
    clock,     \* ticks of the wall clock read by new Date()
    writes,    \* the slots whose writes the store has applied, oldest first
    gate       \* the headers of the request the gate decided last, where tracked

vars == <<nodeEnv, customers, req, started, clock, writes, gate>>

\* placeholders of the bookkeeping fields
NoStore == [n \in KnownCustomers |-> [present |-> FALSE, value |-> NoText, others |-> 0]]
NoGate == [seen |-> FALSE, host |-> <<>>, origin |-> <<>>, referer |-> <<>>]
NoPrev == [customer |-> <<>>, productId |-> Undefined, before |-> NoStore]

IdleRequest ==
    [pc |-> "idle", op |-> "none",
     customerId |-> Undefined, productId |-> Undefined,
     validated |-> FALSE,
     before |-> NoStore,         \* the store when the request arrived
     prev |-> NoPrev,            \* the add answered 201 just before in this slot
     read |-> "none",            \* how the customer query ended
     fetched |-> <<>>,           \* the array getCustomerMetafield returned
     currentWishlist |-> <<>>,
     initialLength |-> 0,
     lookup |-> "none",          \* how the product lookup ended
     newProduct |-> NoEntry,
     gqlCalls |-> 0, gqlResult |-> "none", gqlSent |-> NoText,
     restFrom |-> "none",        \* "try" or "catch": where the REST helper was called
     restCalls |-> 0, restGets |-> 0, restWrites |-> 0,
     restFailed |-> 0,           \* calls of the REST helper that threw
     restRead |-> "none",        \* how the GET of the current REST call ended
     restAnswered |-> 0,         \* GETs of the REST helper that got a response
     method |-> "none", restSent |-> NoText,
     addressed |-> {},           \* customer records the request's calls resolved to
     wrote |-> "none",           \* the channel whose write the store applied
     status |-> 0, error |-> "none", count |-> 0, wishlist |-> <<>>]

\* the stored wishlist of a customer as a list; <<>> when there is none to parse
StoredList(n) ==
    IF customers[n].present THEN JsonParse(customers[n].value).value ELSE <<>>

\* an entry added before the run began
EarlierEntry ==
    Entry(Str(<<"2">>), Str(<<"handle-", "2">>), Str(<<"Title ", "2">>), IsoTime(0))

InitialValues ==
    {NoText, JsonStringify(<<>>), JsonStringify(<<EarlierEntry>>), Garbage}

Init ==
    /\ nodeEnv \in {"development", "production"}
    /\ customers \in [KnownCustomers ->
          {[present |-> v # NoText, value |-> v, others |-> o] :
              v \in InitialValues, o \in {0, FirstN}}]
    /\ req = [r \in Slots |-> IdleRequest]
    /\ started = 0
    /\ clock = 0
    /\ writes = <<>>
    /\ gate = NoGate

\* res.status(code).json(...) : the request is over
Respond(r, rec, status, error) ==
    req' = [req EXCEPT ![r] = [rec EXCEPT !.pc = "done", !.status = status, !.error = error]]

\* the store applies a metafield write for customer n
Apply(r, n, text) ==
    /\ customers' = [customers EXCEPT ![n] = [@ EXCEPT !.present = TRUE, !.value = text]]
    /\ writes' = Append(writes, r)


\* headers a request may carry
Hosts == {<<>>, <<"localhost", ":3000">>, <<"dev.", "localhost">>, <<"api.example">>}
Origins == {<<>>, StoreUrl, StoreUrl \o <<".evil.example">>, <<"https://", "evil.example">>}
Referers == {<<>>, StoreUrl \o <<"/products/1">>}

\* the validation with the productId left unchecked
MissingCustomerOnly(op, customerId, productId) == Falsy(customerId)

\* !customerId || !productId of add and remove, !customerId of get
Missing(op, customerId, productId) ==
    IF op = "get" THEN Falsy(customerId)
    ELSE Falsy(customerId) \/ Falsy(productId)

\* the header combinations a request may carry
Headers(hosts, origins, referers) ==
    {[seen |-> TRUE, host |-> host, origin |-> originHeader, referer |-> referer] :
        host \in hosts, originHeader \in origins, referer \in referers}

\* one combination of headers for each decision the gate can come to
OnePerDecision(mode, headers) ==
    {CHOOSE h \in headers : IsValidOrigin(mode, h.host, h.origin, h.referer) = valid :
        valid \in {IsValidOrigin(mode, h.host, h.origin, h.referer) : h \in headers}}

\* A request arrives in slot r with inputs drawn from the given sets: the gate
\* (router.use(validateStoreRequest)), then the handler up to its first await.
\* get reads no productId.  `tracked` says whether the run keeps the headers;
\* where it does not, one combination of headers stands for all that the gate
\* decides alike.
Arrive(r, ops, customerIds, productIds, hosts, origins, referers, tracked) ==
    /\ (req[r].pc = "idle" \/ req[r].pc = "done")
    /\ started < MaxRequests
    /\ \E op \in ops, customerId \in customerIds, productId \in productIds,
          h \in IF tracked THEN Headers(hosts, origins, referers)
                ELSE OnePerDecision(nodeEnv, Headers(hosts, origins, referers)) :
          /\ op = "get" => productId = Undefined
          /\ gate' = IF tracked THEN h ELSE gate
          /\ LET valid == IsValidOrigin(nodeEnv, h.host, h.origin, h.referer)
                 rec == [IdleRequest EXCEPT
                            !.op = op,
                            !.customerId = customerId, !.productId = productId,
                            !.validated = valid,
                            !.before = customers,
                            !.prev = IF req[r].op = "add" /\ req[r].status = 201
                                     THEN [customer |-> QualifiedCustomerId(req[r].customerId),
                                           productId |-> req[r].productId,
                                           before |-> req[r].before]
                                     ELSE NoPrev]
                 missing == Missing(op, customerId, productId)
             IN IF ~valid THEN Respond(r, rec, 403, "Forbidden")
                ELSE IF missing THEN Respond(r, rec, 400, "Missing required")
                ELSE req' = [req EXCEPT ![r] = [rec EXCEPT !.pc = "read"]]
    /\ started' = started + 1
    /\ writes' = IF writes # <<>> /\ writes[Len(writes)] = r
                 THEN <<>>
                 ELSE SelectSeq(writes, LAMBDA w : w # r)
    /\ UNCHANGED <<nodeEnv, customers, clock>>

\* the three routes of the router
Operations == {"add", "get", "remove"}

\* any request the API accepts
Start(r) ==
    Arrive(r, Operations, CustomerIdInputs, ProductIdInputs, Hosts, Origins, Referers,
           FALSE)

\* the routes that write, and the inputs of an authorized request for the known
\* customer
Mutations == {"add", "remove"}
PlainCustomerIds == {Str(<<"1">>)}
PlainProductIds == {Str(<<n>>) : n \in ProductNumbers}
PlainHosts == {<<"localhost", ":3000">>}
PlainOrigins == {StoreUrl}
PlainReferers == {<<>>}

\* an authorized add or remove for the known customer
StartPlain(r) ==
    Arrive(r, Mutations, PlainCustomerIds, PlainProductIds,
           PlainHosts, PlainOrigins, PlainReferers, FALSE)

\* how each upstream call can end
ReadOutcomes == {"answer", "error"}
LookupOutcomes == {"nodes", "error"}
MutationOutcomes == {"set", "userErrors", "error"}
RestGetOutcomes == {"ok", "not ok", "rejected"}
RestWriteOutcomes == {"ok", "not ok"}

\* The handler after getCustomerMetafield returned `list`.
AfterRead(r, rec, list) ==
    LET got == [rec EXCEPT !.fetched = list, !.currentWishlist = list]
    IN CASE rec.op = "get" ->
              Respond(r, [got EXCEPT !.wishlist = list, !.count = Len(list)], 200, "none")
         [] rec.op = "add" ->
              IF ExistingProduct(list, rec.productId) # 0
              THEN Respond(r, got, 409, "Product already in wishlist")
              ELSE req' = [req EXCEPT ![r] = [got EXCEPT !.pc = "lookup"]]
         [] OTHER ->
              LET filtered == RemoveProduct(list, rec.productId)
                  kept == [got EXCEPT !.initialLength = Len(list),
                                      !.currentWishlist = filtered]
              IN IF Len(filtered) = Len(list)
                 THEN Respond(r, kept, 404, "Product not found")
                 ELSE req' = [req EXCEPT ![r] = [kept EXCEPT !.pc = "gql"]]

\* getCustomerMetafield: the customer query answers or fails.  A failure that
\* is no 'Customer not found' is thrown on to the handler's catch block.
ReadCustomer(r) ==
    /\ req[r].pc = "read"
    /\ LET target == GraphQLCustomer(QualifiedCustomerId(req[r].customerId))
       IN \E outcome \in ReadOutcomes :
            LET answer == IF outcome = "error" \/ target = "invalid" THEN QueryFailed
                          ELSE IF target \notin KnownCustomers THEN CustomerNull
                          ELSE CustomerWith(customers[target])
                result == GetCustomerMetafield(answer)
                rec == [req[r] EXCEPT !.addressed = @ \cup {target},
                                      !.read = answer.kind]
            IN IF result.threw
               THEN Respond(r, rec, 500, "read")
               ELSE AfterRead(r, rec, result.value)
    /\ UNCHANGED <<nodeEnv, customers, started, clock, writes, gate>>

\* the new product put in front
Unshift(currentWishlist, newProduct) == <<newProduct>> \o currentWishlist

\* currentWishlist.push(newProduct)
Push(currentWishlist, newProduct) == Append(currentWishlist, newProduct)

\* getProductDetails([productId]), then newProduct and the push.
LookupProduct(r) ==
    /\ req[r].pc = "lookup"
    /\ \E outcome \in LookupOutcomes :
         LET n == GraphQLProduct(QualifiedProductId(req[r].productId))
             found == outcome = "nodes" /\ n # "invalid"
             details == IF found THEN ProductDetails(ProductNode(n))
                        ELSE BasicProductDetails(req[r].productId)
             newProduct == NewProduct(details, clock + 1)
         IN req' = [req EXCEPT ![r] =
                      [@ EXCEPT !.pc = "gql",
                                !.lookup = IF found THEN "found" ELSE "failed",
                                !.newProduct = newProduct,
                                !.currentWishlist = Push(@, newProduct)]]
    /\ clock' = clock + 1
    /\ UNCHANGED <<nodeEnv, customers, started, writes, gate>>

\* The handler after updateCustomerMetafield returned.
Success(r, rec) ==
    IF rec.op = "add"
    THEN Respond(r, [rec EXCEPT !.count = Len(rec.currentWishlist)], 201, "none")
    ELSE Respond(r, [rec EXCEPT !.count = Len(rec.currentWishlist)], 200, "none")

\* the fallback taken from the catch block only
NeedsFallbackOnThrowOnly(outcome) == outcome = "error"

\* updateCustomerMetafield: the mutation returned userErrors, or the call threw
NeedsFallback(outcome) == outcome = "userErrors" \/ outcome = "error"

\* updateCustomerMetafield: the metafieldsSet mutation.
GraphQLWrite(r) ==
    /\ req[r].pc = "gql"
    /\ LET target == GraphQLCustomer(QualifiedCustomerId(req[r].customerId))
           value == MutationValue(req[r].currentWishlist)
           rec == [req[r] EXCEPT !.addressed = @ \cup {target},
                                 !.gqlCalls = @ + 1, !.gqlSent = value]
       IN \E outcome \in MutationOutcomes :
            /\ outcome = "set" => target \in KnownCustomers
            /\ IF ~NeedsFallback(outcome)
               THEN /\ Apply(r, target, value)
                    /\ Success(r, [rec EXCEPT !.gqlResult = outcome, !.wrote = "graphql"])
               ELSE /\ req' = [req EXCEPT ![r] =
                                 [rec EXCEPT !.pc = "restGet", !.gqlResult = outcome,
                                             !.restCalls = @ + 1,
                                             !.restFrom = IF outcome = "userErrors"
                                                          THEN "try" ELSE "catch"]]
                    /\ UNCHANGED <<customers, writes>>
    /\ UNCHANGED <<nodeEnv, started, clock, gate>>

\* the error of the REST helper swallowed: the handler goes on to its response
RestFailedSwallowed(r, rec) == Success(r, [rec EXCEPT !.restFailed = @ + 1])

\* updateCustomerMetafieldREST threw.  A call made inside the try block of
\* updateCustomerMetafield lands in its catch block, which calls the helper
\* again; a call made from the catch block propagates to the handler.
RestFailed(r, rec) ==
    LET failed == [rec EXCEPT !.restFailed = @ + 1]
    IN IF rec.restFrom = "try"
       THEN req' = [req EXCEPT ![r] =
                      [failed EXCEPT !.pc = "restGet", !.restFrom = "catch",
                                     !.restCalls = @ + 1, !.method = "none",
                                     !.restRead = "none"]]
       ELSE Respond(r, failed, 500, "REST API Error")

\* updateCustomerMetafieldREST: the GET of the customer's metafields.
RestGet(r) ==
    /\ req[r].pc = "restGet"
    /\ LET target == RestCustomer(CleanCustomerId(req[r].customerId))
       IN \E outcome \in RestGetOutcomes :
            LET rec == [req[r] EXCEPT !.addressed = @ \cup {target},
                                      !.restGets = @ + 1,
                                      !.restRead = outcome,
                                      !.restAnswered = IF outcome = "rejected"
                                                       THEN @ ELSE @ + 1]
            IN /\ outcome = "ok" => target \in KnownCustomers
               /\ CASE outcome = "rejected" -> RestFailed(r, rec)
                    [] outcome = "not ok" ->
                         req' = [req EXCEPT ![r] =
                                   [rec EXCEPT !.pc = "restWrite", !.method = RestMethod(0)]]
                    [] OTHER ->
                         req' = [req EXCEPT ![r] =
                                   [rec EXCEPT !.pc = "restWrite",
                                      !.method = RestMethod(ExistingMetafieldId(customers[target]))]]
    /\ UNCHANGED <<nodeEnv, customers, started, clock, writes, gate>>

\* updateCustomerMetafieldREST: the PUT or POST of the metafield.
RestWrite(r) ==
    /\ req[r].pc = "restWrite"
    /\ LET target == RestCustomer(CleanCustomerId(req[r].customerId))
           value == RestBodyValue(req[r].currentWishlist)
           rec == [req[r] EXCEPT !.addressed = @ \cup {target},
                                 !.restWrites = @ + 1, !.restSent = value]
       IN \E outcome \in RestWriteOutcomes :
            /\ outcome = "ok" => target \in KnownCustomers
            /\ IF outcome = "ok"
               THEN /\ Apply(r, target, value)
                    /\ Success(r, [rec EXCEPT !.wrote = "rest"])
               ELSE /\ RestFailed(r, rec)
                    /\ UNCHANGED <<customers, writes>>
    /\ UNCHANGED <<nodeEnv, started, clock, gate>>

\* Requests served one after another.
Next ==
    \/ Start(1)
    \/ ReadCustomer(1)
    \/ LookupProduct(1)
    \/ GraphQLWrite(1)
    \/ RestGet(1)
    \/ RestWrite(1)

Spec == Init /\ [][Next]_vars

\* Two requests for the same customer in flight together, on a store that holds
\* an empty wishlist.
InitConcurrent ==
    /\ nodeEnv = "production"
    /\ customers = [n \in KnownCustomers |->
                      [present |-> TRUE, value |-> JsonStringify(<<>>), others |-> 0]]
    /\ req = [r \in Slots |-> IdleRequest]
    /\ started = 0
    /\ clock = 0
    /\ writes = <<>>
    /\ gate = NoGate

NextConcurrent ==
    \E r \in Slots :
        \/ StartPlain(r)
        \/ ReadCustomer(r)
        \/ LookupProduct(r)
        \/ GraphQLWrite(r)
        \/ RestGet(r)
        \/ RestWrite(r)

SpecConcurrent == InitConcurrent /\ [][NextConcurrent]_vars

\* The gate on its own: gets for the known customer under every operating mode
\* and every combination of headers, on a store that holds an empty wishlist.
\* "unset" is NODE_ENV left undefined.
Modes == {"development", "production", "test", "unset"}
GateOperations == {"get"}
GateProductIds == {Undefined}

StartGate(r) ==
    Arrive(r, GateOperations, PlainCustomerIds, GateProductIds, Hosts, Origins, Referers,
           TRUE)

InitGate ==
    /\ nodeEnv \in Modes
    /\ customers = [n \in KnownCustomers |->
                      [present |-> TRUE, value |-> JsonStringify(<<>>), others |-> 0]]
    /\ req = [r \in Slots |-> IdleRequest]
    /\ started = 0
    /\ clock = 0
    /\ writes = <<>>
    /\ gate = NoGate

NextGate ==
    \/ StartGate(1)
    \/ ReadCustomer(1)

SpecGate == InitGate /\ [][NextGate]_vars

\* ------------------------------------------------------------------ properties

\* the customer a request is for, read off the id it carries
CustomerOf(customerId) ==
    IF customerId.v = <<>> THEN "invalid" ELSE customerId.v[Len(customerId.v)]

\* the wishlist a metafield record holds; <<>> when it holds none
ListOf(rec) == IF rec.present THEN JsonParse(rec.value).value ELSE <<>>

\* the stored wishlist of the request's customer when the request arrived, and now
StoredBefore(r) ==
    LET n == CustomerOf(req[r].customerId)
    IN IF n \in KnownCustomers THEN ListOf(req[r].before[n]) ELSE <<>>

StoredNow(r) ==
    LET n == CustomerOf(req[r].customerId)
    IN IF n \in KnownCustomers THEN ListOf(customers[n]) ELSE <<>>

\* list has an entry whose id is productId
Holds(list, productId) ==
    \E i \in 1..Len(list) : StrictEq(list[i].id, productId)

Answered(r) == req[r].pc = "done"

\* the operation ran: the request passed the gate and the validation
Ran(r) == req[r].read # "none"

\* the customer query of the request was answered
ReadAnswered(r) == req[r].read = "customer" \/ req[r].read = "customer not found"

\* no write was attempted on either channel
NoWriteAttempt(r) ==
    /\ req[r].gqlCalls = 0
    /\ req[r].restCalls = 0
    /\ req[r].restGets = 0
    /\ req[r].restWrites = 0
    /\ req[r].wrote = "none"

\* C1: the stored wishlist never contains two entries with the same product id
\* (the store starts without duplicates; requests of any kind, on either channel).
NoDuplicateProductIds ==
    \A n \in KnownCustomers :
        LET list == StoredList(n)
        IN \A i, j \in 1..Len(list) :
              i # j => ~StrictEq(list[i].id, list[j].id)

\* the request in slot r is an add that directly follows an add of the same
\* product for the same customer that was answered 201
RepeatsAdd(r) ==
    /\ req[r].op = "add"
    /\ req[r].prev # NoPrev
    /\ req[r].prev.customer = QualifiedCustomerId(req[r].customerId)
    /\ StrictEq(req[r].prev.productId, req[r].productId)

\* C2: when add is called twice in sequence for the same customer and product and
\* the first add responds 201, the second add (its customer query being answered
\* with the stored wishlist) responds 409 and writes nothing, and the stored
\* wishlist is one entry longer than before the first call.
SecondAddConflicts ==
    \A r \in Slots :
        (/\ Answered(r) /\ RepeatsAdd(r)
         /\ ReadAnswered(r) /\ req[r].fetched = StoredBefore(r)) =>
            /\ req[r].status = 409
            /\ NoWriteAttempt(r)
            /\ Len(StoredNow(r)) =
                  Len(ListOf(req[r].prev.before[CustomerOf(req[r].customerId)])) + 1

\* C3: a remove for a productId that is in no entry of the stored wishlist
\* attempts no write on the GraphQL or the REST channel, leaves the store as it
\* was, and responds 404 (500 when the customer query itself fails).
RemoveAbsentWritesNothing ==
    \A r \in Slots :
        (Answered(r) /\ req[r].op = "remove" /\ Ran(r)
            /\ ~Holds(StoredBefore(r), req[r].productId)) =>
            /\ NoWriteAttempt(r)
            /\ customers = req[r].before
            /\ req[r].status = IF ReadAnswered(r) THEN 404 ELSE 500

\* a remove of a product that is not stored, on a store that holds other entries
RemoveAbsentWitness ==
    \E r \in Slots :
        /\ Answered(r) /\ req[r].op = "remove" /\ ReadAnswered(r)
        /\ StoredBefore(r) # <<>>
        /\ req[r].fetched = StoredBefore(r)
        /\ ~Holds(StoredBefore(r), req[r].productId)
        /\ req[r].status = 404

\* the request in slot r is a remove answered 200 that directly follows an add,
\* answered 201, of the same product for the same customer, on a stored
\* wishlist that did not hold the product
RemovesWhatWasAdded(r) ==
    /\ Answered(r) /\ req[r].op = "remove" /\ req[r].status = 200
    /\ req[r].prev # NoPrev
    /\ req[r].prev.customer = QualifiedCustomerId(req[r].customerId)
    /\ StrictEq(req[r].prev.productId, req[r].productId)
    /\ req[r].prev.before[CustomerOf(req[r].customerId)].value # Garbage
    /\ ~Holds(ListOf(req[r].prev.before[CustomerOf(req[r].customerId)]), req[r].productId)

\* C4: a successful add(c, p) on a stored wishlist W without p, followed by a
\* successful remove(c, p), leaves the stored wishlist equal to W: the same
\* entries in the same order.
AddThenRemoveRestores ==
    \A r \in Slots :
        RemovesWhatWasAdded(r) =>
            StoredNow(r) = ListOf(req[r].prev.before[CustomerOf(req[r].customerId)])

\* add then remove on a wishlist that held another entry
AddThenRemoveWitness ==
    \E r \in Slots :
        /\ RemovesWhatWasAdded(r)
        /\ StoredNow(r) = <<EarlierEntry>>

\* C5: within one request the REST fallback procedure is attempted at most
\* once; once a REST attempt has failed the request is over with 500 and no
\* further write attempt on any channel.
RestAttemptedAtMostOnce ==
    \A r \in Slots :
        /\ req[r].restCalls <= 1
        /\ req[r].restFailed >= 1 =>
              /\ Answered(r)
              /\ req[r].status = 500
              /\ req[r].wrote = "none"

StatusOfSuccess(op) == IF op = "add" THEN 201 ELSE 200

\* C6: when the primary write reports user errors and the REST fallback
\* succeeds, the fallback was sent the same full serialized collection as the
\* primary, and the response and the stored wishlist are those of the run in
\* which the primary write succeeds: the success status of the operation, the
\* length of the collection, and the collection itself in the store.
FallbackInvisible ==
    \A r \in Slots :
        (Answered(r) /\ req[r].gqlResult = "userErrors" /\ req[r].wrote = "rest") =>
            /\ req[r].restSent = req[r].gqlSent
            /\ JsonParse(req[r].restSent).value = req[r].currentWishlist
            /\ req[r].status = StatusOfSuccess(req[r].op)
            /\ req[r].count = Len(req[r].currentWishlist)
            /\ customers[CustomerOf(req[r].customerId)].value = req[r].gqlSent

\* a fallback write of a collection of two entries
FallbackWitness ==
    \E r \in Slots :
        /\ Answered(r) /\ req[r].gqlResult = "userErrors" /\ req[r].wrote = "rest"
        /\ Len(req[r].currentWishlist) = 2
        /\ req[r].status = 201

\* the payload the store applied for the request in slot r
Sent(r) == IF req[r].wrote = "graphql" THEN req[r].gqlSent ELSE req[r].restSent

\* C7: the stored wishlist is exactly the collection of the write that
\* completed last, built from that request's own read with no merge of what
\* other requests wrote in between.
LastWriterWins ==
    writes # <<>> =>
        LET w == writes[Len(writes)]
        IN /\ customers["1"].value = Sent(w)
           /\ StoredList("1") = req[w].currentWishlist
           /\ req[w].op = "add" =>
                 req[w].currentWishlist = Append(req[w].fetched, req[w].newProduct)
           /\ req[w].op = "remove" =>
                 req[w].currentWishlist = RemoveProduct(req[w].fetched, req[w].productId)

\* two adds of different products that both read the empty wishlist, both
\* wrote and were both answered 201, while the store holds one entry only
LostUpdateWitness ==
    /\ \A r \in Slots :
          /\ Answered(r) /\ req[r].op = "add" /\ req[r].status = 201
          /\ req[r].fetched = <<>>
    /\ ~StrictEq(req[1].productId, req[2].productId)
    /\ Len(writes) = 2
    /\ Len(StoredList("1")) = 1

\* C8: when the product lookup fails during add(c, p), the entry appended has
\* id p, handle null and title "Product <p>", and the add goes on to the
\* write: it responds 201 with that entry stored, unless the write fails on
\* both channels.
LookupFailureStillAdds ==
    \A r \in Slots :
        req[r].lookup = "failed" =>
            /\ StrictEq(req[r].newProduct.id, req[r].productId)
            /\ req[r].newProduct.handle = JsNull
            /\ req[r].newProduct.title = Str(<<"Product ">> \o req[r].productId.v)
            /\ req[r].currentWishlist = Append(req[r].fetched, req[r].newProduct)
            /\ Answered(r) =>
                  \/ /\ req[r].status = 201
                     /\ req[r].wrote # "none"
                     /\ StoredNow(r) = req[r].currentWishlist
                  \/ /\ req[r].status = 500
                     /\ req[r].wrote = "none"
                     /\ req[r].restFailed >= 1

\* an add of a numeric id whose lookup failed, answered 201 after the fallback
\* wrote the collection
LookupFailureWitness ==
    \E r \in Slots :
        /\ Answered(r) /\ req[r].lookup = "failed" /\ req[r].status = 201
        /\ req[r].productId.t = "number"
        /\ req[r].wrote = "rest"
        /\ Len(StoredNow(r)) = 2

\* C9: get for a customer without a wishlist metafield, or one the store reports
\* as not found, responds 200 with an empty wishlist and count 0.
GetWithoutWishlistIsEmpty ==
    \A r \in Slots :
        (/\ Answered(r) /\ req[r].op = "get"
         /\ \/ req[r].read = "customer not found"
            \/ /\ req[r].read = "customer"
               /\ ~req[r].before[CustomerOf(req[r].customerId)].present) =>
            /\ req[r].status = 200
            /\ req[r].error = "none"
            /\ req[r].wishlist = <<>>
            /\ req[r].count = 0

\* a get for the customer the store does not know
GetUnknownCustomerWitness ==
    \E r \in Slots :
        /\ Answered(r) /\ req[r].op = "get"
        /\ req[r].read = "customer not found"
        /\ req[r].status = 200

\* C10: whichever form the customerId has, bare or qualified, every call of the
\* request (the customer query, the metafieldsSet mutation, the REST GET and the
\* REST PUT or POST) resolves to the record of that one customer.
SameCustomerWhicheverForm ==
    \A r \in Slots :
        req[r].addressed \subseteq {CustomerOf(req[r].customerId)}

\* a request with a qualified id that went through all four calls
QualifiedIdWitness ==
    \E r \in Slots :
        /\ Answered(r) /\ req[r].wrote = "rest"
        /\ StartsWith(req[r].customerId.v, CustomerGidPrefix)
        /\ req[r].addressed = KnownCustomers

\* no call reached the store: no customer query, no product lookup, no write
NoRemoteCall(r) ==
    /\ req[r].read = "none"
    /\ req[r].lookup = "none"
    /\ req[r].addressed = {}
    /\ NoWriteAttempt(r)

\* C11: a request the gate refuses is answered 403 and a request with a missing
\* customerId (or, for add and remove, productId) is answered 400, whatever the
\* operation; a request answered 403 or 400 made no remote read and no remote
\* write, and the store is as it was.
RejectedBeforeAnyCall ==
    \A r \in Slots :
        /\ (req[r].op # "none" /\ ~req[r].validated) =>
              Answered(r) /\ req[r].status = 403
        /\ (/\ req[r].op # "none" /\ req[r].validated
            /\ \/ req[r].customerId.t = "undefined"
               \/ req[r].op # "get" /\ req[r].productId.t = "undefined") =>
              Answered(r) /\ req[r].status = 400
        /\ (Answered(r) /\ (req[r].status = 403 \/ req[r].status = 400)) =>
              NoRemoteCall(r) /\ customers = req[r].before

\* a remove carrying both fields that the gate refused, as the second request
\* of the run
RejectedWitness ==
    /\ started = 2
    /\ Answered(1) /\ req[1].op = "remove" /\ req[1].status = 403
    /\ ~Falsy(req[1].customerId) /\ ~Falsy(req[1].productId)

\* C12: get attempts no write on either channel and no product lookup on any
\* path, and a get answered 200 returns the stored wishlist of the customer
\* verbatim, with count equal to its length.
GetReturnsStoredVerbatim ==
    \A r \in Slots :
        req[r].op = "get" =>
            /\ NoWriteAttempt(r)
            /\ req[r].lookup = "none"
            /\ (Answered(r) /\ req[r].status = 200) =>
                  /\ req[r].wishlist = StoredBefore(r)
                  /\ req[r].count = Len(req[r].wishlist)

\* the two tests of the gate on the headers it last looked at
HostHasDevelopmentUrl == Includes(gate.host, DevelopmentUrl)

DeclaredOriginIsStore ==
    StartsWith(IF gate.origin # <<>> THEN gate.origin ELSE gate.referer, StoreUrl)

\* the gate let the request in slot 1 through
Authorized == req[1].validated /\ req[1].status # 403

RestContacted(r) ==
    \/ req[r].restCalls > 0
    \/ req[r].restGets > 0
    \/ req[r].restWrites > 0
    \/ req[r].wrote = "rest"

\* C14: the REST channel is contacted in a request if and only if its
\* metafieldsSet call failed or returned user errors; a mutation that succeeds
\* without user errors is followed by no REST read and no REST write, and a
\* request that never got to the mutation contacts REST neither.
RestOnlyAfterPrimaryFailure ==
    \A r \in Slots :
        /\ RestContacted(r) <=>
              (req[r].gqlResult = "userErrors" \/ req[r].gqlResult = "error")
        /\ req[r].restCalls > 0 <=> RestContacted(r)
        /\ req[r].gqlResult = "set" =>
              Answered(r) /\ req[r].wrote = "graphql" /\ ~RestContacted(r)
        /\ req[r].gqlCalls = 0 => ~RestContacted(r)

\* a remove whose mutation call failed and whose REST write was applied, after
\* an add answered 201
RestAfterFailureWitness ==
    /\ Answered(1) /\ req[1].op = "remove" /\ req[1].status = 200
    /\ req[1].gqlResult = "error" /\ req[1].wrote = "rest"
    /\ req[1].restGets = 1 /\ req[1].restWrites = 1
    /\ req[1].prev # NoPrev

\* the collection a payload carries
PayloadList(text) == JsonParse(text).value

\* list is what the request's own read returned, changed the way its operation
\* changes it: one entry more at the end for add, the entries with the given
\* id gone and the others untouched and in place for remove
DerivedFromSnapshot(r, list) ==
    IF req[r].op = "add"
    THEN /\ Len(list) = Len(req[r].fetched) + 1
         /\ SubSeq(list, 1, Len(req[r].fetched)) = req[r].fetched
         /\ list[Len(list)] = req[r].newProduct
    ELSE /\ req[r].op = "remove"
         /\ list = SelectSeq(req[r].fetched,
                             LAMBDA e : ~StrictEq(e.id, req[r].productId))
         /\ Len(list) < Len(req[r].fetched)

\* C15: every payload sent, on the GraphQL and on the REST channel, carries the
\* request's own read snapshot with exactly one new entry appended (add) or
\* with exactly the entries of the given product id deleted (remove), the
\* other entries unchanged and in their order; what a completed write leaves
\* in the store is that payload.
PayloadDerivedFromSnapshot ==
    \A r \in Slots :
        /\ req[r].gqlCalls > 0 => DerivedFromSnapshot(r, PayloadList(req[r].gqlSent))
        /\ req[r].restWrites > 0 => DerivedFromSnapshot(r, PayloadList(req[r].restSent))
        /\ (Answered(r) /\ req[r].wrote # "none") =>
              /\ customers[CustomerOf(req[r].customerId)].value = Sent(r)
              /\ DerivedFromSnapshot(r, StoredNow(r))

\* an add on a wishlist of one entry, written by the mutation: the earlier
\* entry first, the new one after it
AppendedLastWitness ==
    \E r \in Slots :
        /\ Answered(r) /\ req[r].op = "add" /\ req[r].wrote = "graphql"
        /\ req[r].fetched = <<EarlierEntry>>
        /\ StoredNow(r) = <<EarlierEntry, req[r].newProduct>>
        /\ req[r].newProduct.id # EarlierEntry.id

\* the request in slot r directly follows an add for the same customer that
\* was answered 201, and its own customer query was answered with the customer
ReadsAfterWrite(r) ==
    /\ Answered(r)
    /\ req[r].prev # NoPrev
    /\ req[r].prev.customer = QualifiedCustomerId(req[r].customerId)
    /\ req[r].read = "customer"

\* C16: after a write of collection W for a customer that succeeded, with no
\* later write, the next read for that customer returns exactly W, and a get
\* returns W with count |W|.
ReadReturnsWhatWasWritten ==
    \A r \in Slots :
        ReadsAfterWrite(r) =>
            /\ StoredBefore(r) # <<>>
            /\ req[r].fetched = StoredBefore(r)
            /\ req[r].op = "get" =>
                  /\ req[r].wishlist = StoredBefore(r)
                  /\ req[r].count = Len(StoredBefore(r))

\* the metafield record of the request's customer when the request arrived
RecordBefore(r) == req[r].before[CustomerOf(req[r].customerId)]

\* the customer query of the request was answered with the known customer,
\* whose wishlist metafield held a value that is no JSON
ReadUnparsable(r) ==
    /\ Answered(r) /\ req[r].read = "customer"
    /\ RecordBefore(r).present /\ RecordBefore(r).value = Garbage

\* the same, the customer having no wishlist metafield at all
ReadNoMetafield(r) ==
    /\ Answered(r) /\ req[r].read = "customer"
    /\ ~RecordBefore(r).present

\* what a request on an empty wishlist comes to: get 200 with count 0, remove
\* 404 without a write, add 201 with a one-entry collection stored (500 and
\* nothing stored when the write fails on both channels)
AsOnEmptyWishlist(r) ==
    /\ req[r].fetched = <<>>
    /\ req[r].op = "get" =>
          /\ req[r].status = 200 /\ req[r].wishlist = <<>> /\ req[r].count = 0
          /\ NoWriteAttempt(r)
    /\ req[r].op = "remove" =>
          /\ req[r].status = 404
          /\ NoWriteAttempt(r) /\ customers = req[r].before
    /\ req[r].op = "add" =>
          \/ /\ req[r].status = 201 /\ req[r].wrote # "none"
             /\ req[r].count = 1
             /\ StoredNow(r) = <<req[r].newProduct>>
          \/ /\ req[r].status = 500 /\ req[r].wrote = "none"
             /\ req[r].restFailed >= 1
             /\ customers = req[r].before

\* C17: a stored value that cannot be parsed reads as the empty wishlist, not
\* as an error, and every operation then goes as for a customer without a
\* wishlist metafield: get 200 with count 0, remove 404 without writing, add
\* 201 with the stored value replaced by a one-entry collection.
UnparsableReadsAsEmpty ==
    \A r \in Slots :
        /\ ReadUnparsable(r) => AsOnEmptyWishlist(r)
        /\ ReadNoMetafield(r) => AsOnEmptyWishlist(r)

\* an add on a store whose wishlist value was no JSON, answered 201, the value
\* now a collection of one entry
UnparsableOverwrittenWitness ==
    \E r \in Slots :
        /\ ReadUnparsable(r) /\ RecordBefore(r).others = 0
        /\ req[r].op = "add" /\ req[r].status = 201
        /\ Len(StoredNow(r)) = 1
        /\ customers[CustomerOf(req[r].customerId)].value # Garbage

\* the current REST call of the request got past its GET
RestMethodChosen(r) == req[r].method # "none"

\* C18: in the REST fallback the write is a PUT exactly when the GET before it
\* was answered ok and listed a metafield of namespace "custom" and key
\* "wishlist_products", and a POST otherwise (no such metafield, or a GET that
\* was not ok).  Either carries the serialized current wishlist, and each
\* call of the helper whose GET got a response issues exactly one write (a
\* call whose GET request itself fails issues none).
PutExactlyWhenFound ==
    \A r \in Slots :
        /\ RestMethodChosen(r) =>
              /\ req[r].restRead = "ok" \/ req[r].restRead = "not ok"
              /\ req[r].method = "PUT" <=>
                    (req[r].restRead = "ok" /\ RecordBefore(r).present)
              /\ req[r].method = "POST" <=>
                    (req[r].restRead = "not ok" \/ ~RecordBefore(r).present)
        /\ req[r].restWrites > 0 =>
              req[r].restSent = JsonStringify(req[r].currentWishlist)
        /\ req[r].restAnswered <= req[r].restCalls
        /\ req[r].restWrites =
              IF req[r].pc = "restWrite" THEN req[r].restAnswered - 1
              ELSE req[r].restAnswered

\* a fallback that found the wishlist metafield behind other metafields and
\* updated it with PUT
PutWitness ==
    \E r \in Slots :
        /\ Answered(r) /\ req[r].wrote = "rest" /\ req[r].method = "PUT"
        /\ req[r].restRead = "ok"
        /\ RecordBefore(r).present /\ RecordBefore(r).others = FirstN

\* C19: when the customer query of an add or a remove fails with an error other
\* than 'Customer not found', the request is answered 500 without a product
\* lookup and without a write on either channel, and the store is as it was.
ReadFailureWritesNothing ==
    \A r \in Slots :
        ((req[r].op = "add" \/ req[r].op = "remove") /\ req[r].read = "error") =>
            /\ Answered(r) /\ req[r].status = 500
            /\ req[r].lookup = "none"
            /\ NoWriteAttempt(r)
            /\ customers = req[r].before

\* an add for the known customer, whose wishlist holds an entry, that ended in
\* 500 on the failed customer query
ReadFailureWitness ==
    \E r \in Slots :
        /\ Answered(r) /\ req[r].op = "add" /\ req[r].read = "error"
        /\ req[r].status = 500
        /\ CustomerOf(req[r].customerId) \in KnownCustomers
        /\ StoredNow(r) = <<EarlierEntry>>

\* C20: an add answered 201 or a remove answered 200 has had its full updated
\* collection written on one of the two channels before the response, the
\* store holds that collection, and the count of the response is the length
\* of the collection written.
SuccessOnlyAfterWrite ==
    \A r \in Slots :
        (/\ Answered(r)
         /\ \/ req[r].op = "add" /\ req[r].status = 201
            \/ req[r].op = "remove" /\ req[r].status = 200) =>
            /\ req[r].wrote = "graphql" \/ req[r].wrote = "rest"
            /\ writes # <<>> /\ writes[Len(writes)] = r
            /\ Sent(r) = JsonStringify(req[r].currentWishlist)
            /\ customers[CustomerOf(req[r].customerId)].value = Sent(r)
            /\ req[r].count = Len(PayloadList(Sent(r)))

\* a remove answered 200 whose write went through on the second call of the
\* REST helper
SuccessAfterRetryWitness ==
    \E r \in Slots :
        /\ Answered(r) /\ req[r].op = "remove" /\ req[r].status = 200
        /\ req[r].wrote = "rest" /\ req[r].restCalls = 2
        /\ req[r].count = Len(StoredNow(r))

====
